---- MODULE Spec2Model ----
(***************************************************************************)
(* A model of the line harness of harness-rs (src/src/lib.rs).             *)
(*                                                                         *)
(* Bytes are integers 0..255, strings are the sequences of their UTF-8     *)
(* bytes.  The output sink W is any std::io::Write: every write! and every *)
(* flush on it either succeeds or fails, chosen by the environment call by *)
(* call.  `writer` records the calls the sink accepted, in order: one      *)
(* event per successful write! (with the bytes formatted) and one per      *)
(* successful flush.  A call that fails leaves no event.                   *)
(***************************************************************************)
EXTENDS Integers, Sequences, FiniteSets, TLC

VARIABLES
    cmdline,    \* Harness.cmdline: the accumulation buffer
    commands,   \* Harness.commands: name -> [help_text, handler]
    writer,     \* Harness.writer: what the sink has accepted so far
    op,         \* the most recent call: [name, c] (c = -1 when it takes no byte)
    ret,        \* what receive / process returned in the most recent call
    io,         \* the io::Result of the most recent call ("Ok", "Err", "-")
    called,     \* the handlers the most recent call invoked, in order
    sink,       \* the sink calls of the most recent call and their outcomes
    mark,       \* Len(writer) when the most recent call started
    reg,        \* what the most recent call registered: [given: the arguments of
                \* add_command, replaced: the entries it replaced], NoReg otherwise
    typed       \* history of what was fed: [cur: the bytes fed since the last
                \* 0x0A, line: the line the most recent call completed, lines:
                \* how many 0x0A were fed, counted up to two, runs: how
                \* many handlers were invoked, counted up to two]

vars == <<cmdline, commands, writer, op, ret, io, called, sink, mark, reg, typed>>

----------------------------------------------------------------------------
(* Bounds of the exploration.                                              *)

\* The harness is explored until its sink holds this many events.
MaxOut == 1

\* The registry is explored up to this many entries.
MaxCmds == 2

----------------------------------------------------------------------------
(* Text.                                                                   *)

NL == 10

S_help       == <<104, 101, 108, 112>>
S_Command    == <<67, 111, 109, 109, 97, 110, 100, 58, 32>>
S_Dash       == <<32, 45, 32>>
S_Prompt     == <<62, 32>>
S_Error      == <<69, 114, 114, 111, 114, 58, 32>>
S_InvalidCommand == <<73, 110, 118, 97, 108, 105, 100, 32, 99, 111, 109, 109, 97, 110, 100>>
S_InvalidUtf8 == <<67, 111, 109, 109, 97, 110, 100, 32, 105, 115, 32, 105, 110, 118, 97, 108,
                   105, 100, 32, 85, 84, 70, 45, 56>>
S_HelpIo     == <<73, 47, 79, 32, 101, 114, 114, 111, 114, 32, 112, 114, 105, 110, 116, 105,
                  110, 103, 32, 104, 101, 108, 112>>
S_boom       == <<98, 111, 111, 109>>

\* Result<(), &'static str>
Ok == [ok |-> TRUE, msg |-> <<>>]
Err(m) == [ok |-> FALSE, msg |-> m]

\* Option<Result<(), &'static str>>
None == [some |-> FALSE, res |-> Ok]
Some(r) == [some |-> TRUE, res |-> r]

\* The handlers of the tests: works returns Ok(()), fails returns Err("boom").
Run(handler) == IF handler = "works" THEN Ok ELSE Err(S_boom)

----------------------------------------------------------------------------
(* std::str::from_utf8 succeeds exactly on well-formed UTF-8.              *)

Cont(b) == b >= 128 /\ b <= 191

\* (mutation) from_utf8_unchecked: every byte sequence is taken for text
from_utf8_unchecked(s) == TRUE

RECURSIVE from_utf8_ok(_)
from_utf8_ok(s) ==
    IF s = <<>> THEN TRUE
    ELSE LET b == s[1]
             n == Len(s)
             rest(k) == SubSeq(s, k + 1, n)
         IN  IF b <= 127 THEN from_utf8_ok(rest(1))
             ELSE IF b >= 194 /\ b <= 223
                  THEN n >= 2 /\ Cont(s[2]) /\ from_utf8_ok(rest(2))
             ELSE IF b >= 224 /\ b <= 239
                  THEN /\ n >= 3
                       /\ Cont(s[2]) /\ Cont(s[3])
                       /\ (b = 224 => s[2] >= 160)
                       /\ (b = 237 => s[2] <= 159)
                       /\ from_utf8_ok(rest(3))
             ELSE IF b >= 240 /\ b <= 244
                  THEN /\ n >= 4
                       /\ Cont(s[2]) /\ Cont(s[3]) /\ Cont(s[4])
                       /\ (b = 240 => s[2] >= 144)
                       /\ (b = 244 => s[2] <= 143)
                       /\ from_utf8_ok(rest(4))
             ELSE FALSE

----------------------------------------------------------------------------
(* The sink.  A harness value h carries the three fields of the struct and *)
(* two instruments of the call under way: h.sink, the calls made on the    *)
(* sink so far with their outcomes, and h.called, the handlers invoked so  *)
(* far.  w is the sink's behaviour during the call:                        *)
(*   w.help    how many write! of the listing succeed before one fails     *)
(*             (all of them, when the listing has no more lines than that) *)
(*   w.error   whether the write! of the error line succeeds               *)
(*   w.prompt  whether the write! of the prompt succeeds                   *)
(*   w.flush   whether the flush succeeds                                  *)

WriteEv(data) == [ev |-> "write", data |-> data]
FlushEv == [ev |-> "flush", data |-> <<>>]

\* write!(self.writer, ...) with the formatted bytes `data`; good: it succeeds
write(h, good, what, data) ==
    [h EXCEPT !.writer = IF good THEN Append(@, WriteEv(data)) ELSE @,
              !.sink = Append(@, [call |-> what, ok |-> good])]

\* self.writer.flush()
flush(h, good) ==
    [h EXCEPT !.writer = IF good THEN Append(@, FlushEv) ELSE @,
              !.sink = Append(@, [call |-> "flush", ok |-> good])]

\* whether the call just made on the sink returned Ok
LastOk(h) == h.sink[Len(h.sink)].ok

----------------------------------------------------------------------------
(* The methods of Harness.  Each returns [h |-> the harness afterwards,    *)
(* r |-> the value returned].                                              *)

\* Harness::new
new == [cmdline |-> <<>>, commands |-> [n \in {} |-> n], writer |-> <<>>]

\* format of one line of the listing: "Command: {} - {}\n"
HelpLine(cmd_name, help_text) == S_Command \o cmd_name \o S_Dash \o help_text \o <<NL>>

\* format of the error line: "Error: {}\n"
ErrorLine(s) == S_Error \o s \o <<NL>>

\* The orders in which HashMap::iter may yield the entries.
IterOrders(cmds) ==
    LET D == DOMAIN cmds
        n == Cardinality(D)
    IN  {ord \in [1..n -> D] : \A i, j \in 1..n : ord[i] = ord[j] => i = j}

\* (mutation) the loop ends after the first entry
print_help_first(h, w, ord) ==
    IF ord = <<>> THEN [h |-> h, r |-> "Ok"]
    ELSE LET h1 == write(h, 1 <= w.help, "help",
                         HelpLine(ord[1], h.commands[ord[1]].help_text))
         IN  [h |-> h1, r |-> IF h1.sink[Len(h1.sink)].ok THEN "Ok" ELSE "Err"]

\* print_help, the loop from entry number i of the iteration order ord on
RECURSIVE print_help_from(_, _, _, _)
print_help_from(h, w, ord, i) ==
    IF i > Len(ord) THEN [h |-> h, r |-> "Ok"]
    ELSE LET h1 == write(h, i <= w.help, "help", HelpLine(ord[i], h.commands[ord[i]].help_text))
         IN  IF LastOk(h1) THEN print_help_from(h1, w, ord, i + 1)
             ELSE [h |-> h1, r |-> "Err"]

print_help(h, w, ord) == print_help_from(h, w, ord, 1)

\* (mutation) the result of the flush is dropped
prompt_unchecked_flush(h, w) ==
    LET h1 == write(h, w.prompt, "prompt", S_Prompt)
    IN  IF ~h1.sink[Len(h1.sink)].ok THEN [h |-> h1, r |-> "Err"]
        ELSE [h |-> flush(h1, w.flush), r |-> "Ok"]

prompt(h, w) ==
    LET h1 == write(h, w.prompt, "prompt", S_Prompt)
    IN  IF ~LastOk(h1) THEN [h |-> h1, r |-> "Err"]
        ELSE LET h2 == flush(h1, w.flush)
             IN  [h |-> h2, r |-> IF LastOk(h2) THEN "Ok" ELSE "Err"]

\* (mutation) an entry already there is kept (entry().or_insert())
insert_keep(cmds, cmd_name, c) ==
    [n \in DOMAIN cmds \cup {cmd_name} |-> IF n \in DOMAIN cmds THEN cmds[n] ELSE c]

\* HashMap::insert: the entry of cmd_name is stored or replaced
insert(cmds, cmd_name, c) ==
    [n \in DOMAIN cmds \cup {cmd_name} |-> IF n = cmd_name THEN c ELSE cmds[n]]

\* (mutation) registering a command discards the line being typed
add_command_resets(h, cmd_name, help_text, handler) ==
    [h EXCEPT !.commands =
                  insert(@, cmd_name, [help_text |-> help_text, handler |-> handler]),
              !.cmdline = <<>>]

\* (mutation) the handler is tried out when it is registered
add_command_runs(h, cmd_name, help_text, handler) ==
    [h EXCEPT !.commands =
                  insert(@, cmd_name, [help_text |-> help_text, handler |-> handler]),
              !.called = Append(@, [name |-> cmd_name, handler |-> handler])]

add_command(h, cmd_name, help_text, handler) ==
    [h EXCEPT !.commands =
        insert(@, cmd_name, [help_text |-> help_text, handler |-> handler])]

\* (mutation) the line is copied out and the buffer keeps it
swap_copy(h) == [cmd_name |-> h.cmdline, h |-> h]

\* let mut cmd_name = Vec::new(); std::mem::swap(&mut self.cmdline, &mut cmd_name)
swap(h) == [cmd_name |-> h.cmdline, h |-> [h EXCEPT !.cmdline = <<>>]]

\* (mutation) no line is the built-in help
is_help_never(s) == FALSE

\* the arm Ok("help") of the match
is_help(s) == s = S_help

\* (mutation) the handler runs and its failure is dropped
lookup_swallow(h, s) ==
    IF s \in DOMAIN h.commands
    THEN LET handler == h.commands[s].handler
         IN  [h |-> [h EXCEPT !.called = Append(@, [name |-> s, handler |-> handler])],
              r |-> Ok]
    ELSE [h |-> h, r |-> Err(S_InvalidCommand)]

\* (mutation) a line that names no command is accepted
lookup_lenient(h, s) ==
    IF s \in DOMAIN h.commands
    THEN LET handler == h.commands[s].handler
         IN  [h |-> [h EXCEPT !.called = Append(@, [name |-> s, handler |-> handler])],
              r |-> Run(handler)]
    ELSE [h |-> h, r |-> Ok]

\* (mutation) a trailing carriage return is trimmed before the lookup
lookup_trim(h, s) ==
    LET t == IF s # <<>> /\ s[Len(s)] = 13 THEN SubSeq(s, 1, Len(s) - 1) ELSE s
    IN  IF t \in DOMAIN h.commands
        THEN LET handler == h.commands[t].handler
             IN  [h |-> [h EXCEPT !.called = Append(@, [name |-> t, handler |-> handler])],
                  r |-> Run(handler)]
        ELSE [h |-> h, r |-> Err(S_InvalidCommand)]

\* the arm Ok(s): the handler of s runs, or the command is invalid
lookup(h, s) ==
    IF s \in DOMAIN h.commands
    THEN LET handler == h.commands[s].handler
         IN  [h |-> [h EXCEPT !.called = Append(@, [name |-> s, handler |-> handler])],
              r |-> Run(handler)]
    ELSE [h |-> h, r |-> Err(S_InvalidCommand)]

\* (mutation) a line that is not UTF-8 is rejected before the buffer is taken
process_keep_on_error(h, w, ord) ==
    IF ~from_utf8_ok(h.cmdline) THEN [h |-> h, r |-> Err(S_InvalidUtf8)]
    ELSE LET cmd_name == swap(h).cmd_name
             h1 == swap(h).h
         IN  IF is_help(cmd_name)
             THEN LET p == print_help(h1, w, ord)
                  IN  [h |-> p.h, r |-> IF p.r = "Ok" THEN Ok ELSE Err(S_HelpIo)]
             ELSE lookup(h1, cmd_name)

\* (mutation) the result of print_help is dropped
process_help_swallow(h, w, ord) ==
    LET cmd_name == swap(h).cmd_name
        h1 == swap(h).h
    IN  IF from_utf8_ok(cmd_name)
        THEN IF is_help(cmd_name)
             THEN [h |-> print_help(h1, w, ord).h, r |-> Ok]
             ELSE lookup(h1, cmd_name)
        ELSE [h |-> h1, r |-> Err(S_InvalidUtf8)]

process(h, w, ord) ==
    LET cmd_name == swap(h).cmd_name
        h1 == swap(h).h
    IN  IF from_utf8_ok(cmd_name)
        THEN IF is_help(cmd_name)
             THEN LET p == print_help(h1, w, ord)
                  IN  [h |-> p.h, r |-> IF p.r = "Ok" THEN Ok ELSE Err(S_HelpIo)]
             ELSE lookup(h1, cmd_name)
        ELSE [h |-> h1, r |-> Err(S_InvalidUtf8)]

\* (mutation) carriage return ends a line too
is_terminator_cr(c) == c = NL \/ c = 13

\* c == '\n' as u8
is_terminator(c) == c = NL

\* (mutation) a terminator on an empty buffer is ignored
receive_skip_empty(h, c, w, ord) ==
    IF is_terminator(c)
    THEN IF h.cmdline = <<>> THEN [h |-> h, r |-> None]
         ELSE LET p == process(h, w, ord) IN [h |-> p.h, r |-> Some(p.r)]
    ELSE [h |-> [h EXCEPT !.cmdline = Append(@, c)], r |-> None]

\* (mutation) the terminator is pushed onto the buffer before the dispatch
receive_push_first(h, c, w, ord) ==
    IF is_terminator(c)
    THEN LET p == process([h EXCEPT !.cmdline = Append(@, c)], w, ord)
         IN  [h |-> p.h, r |-> Some(p.r)]
    ELSE [h |-> [h EXCEPT !.cmdline = Append(@, c)], r |-> None]

receive(h, c, w, ord) ==
    IF is_terminator(c)
    THEN LET p == process(h, w, ord) IN [h |-> p.h, r |-> Some(p.r)]
    ELSE [h |-> [h EXCEPT !.cmdline = Append(@, c)], r |-> None]

\* (mutation) after the error line the call returns without a prompt
receive_and_print_no_prompt(h, c, w, ord) ==
    LET rc == receive(h, c, w, ord)
    IN  IF ~rc.r.some THEN [h |-> rc.h, r |-> "Ok", got |-> rc.r]
        ELSE IF rc.r.res.ok
             THEN LET p == prompt(rc.h, w) IN [h |-> p.h, r |-> p.r, got |-> rc.r]
             ELSE LET h1 == write(rc.h, w.error, "error", ErrorLine(rc.r.res.msg))
                  IN  [h |-> h1, r |-> IF LastOk(h1) THEN "Ok" ELSE "Err", got |-> rc.r]

\* (mutation) a line whose error line could not be written is kept for a
\* second attempt
receive_and_print_requeue(h, c, w, ord) ==
    LET rc == receive(h, c, w, ord)
    IN  IF ~rc.r.some THEN [h |-> rc.h, r |-> "Ok", got |-> rc.r]
        ELSE IF rc.r.res.ok
             THEN LET p == prompt(rc.h, w) IN [h |-> p.h, r |-> p.r, got |-> rc.r]
             ELSE LET h1 == write(rc.h, w.error, "error", ErrorLine(rc.r.res.msg))
                  IN  IF ~LastOk(h1)
                      THEN [h |-> [h1 EXCEPT !.cmdline = h.cmdline], r |-> "Err",
                            got |-> rc.r]
                      ELSE LET p == prompt(h1, w)
                           IN  [h |-> p.h, r |-> p.r, got |-> rc.r]

\* (mutation) the result of writing the error line is dropped
receive_and_print_no_failfast(h, c, w, ord) ==
    LET rc == receive(h, c, w, ord)
    IN  IF ~rc.r.some THEN [h |-> rc.h, r |-> "Ok", got |-> rc.r]
        ELSE IF rc.r.res.ok
             THEN LET p == prompt(rc.h, w) IN [h |-> p.h, r |-> p.r, got |-> rc.r]
             ELSE LET h1 == write(rc.h, w.error, "error", ErrorLine(rc.r.res.msg))
                      p == prompt(h1, w)
                  IN  [h |-> p.h, r |-> p.r, got |-> rc.r]

\* (mutation) the prompt is written after every byte
receive_and_print_always_prompt(h, c, w, ord) ==
    LET rc == receive(h, c, w, ord)
    IN  IF ~rc.r.some
        THEN LET p == prompt(rc.h, w) IN [h |-> p.h, r |-> p.r, got |-> rc.r]
        ELSE IF rc.r.res.ok
             THEN LET p == prompt(rc.h, w) IN [h |-> p.h, r |-> p.r, got |-> rc.r]
             ELSE LET h1 == write(rc.h, w.error, "error", ErrorLine(rc.r.res.msg))
                  IN  IF ~LastOk(h1) THEN [h |-> h1, r |-> "Err", got |-> rc.r]
                      ELSE LET p == prompt(h1, w)
                           IN  [h |-> p.h, r |-> p.r, got |-> rc.r]

\* got is what the inner receive returned
receive_and_print(h, c, w, ord) ==
    LET rc == receive(h, c, w, ord)
    IN  IF ~rc.r.some THEN [h |-> rc.h, r |-> "Ok", got |-> rc.r]
        ELSE IF rc.r.res.ok
             THEN LET p == prompt(rc.h, w) IN [h |-> p.h, r |-> p.r, got |-> rc.r]
             ELSE LET h1 == write(rc.h, w.error, "error", ErrorLine(rc.r.res.msg))
                  IN  IF ~LastOk(h1) THEN [h |-> h1, r |-> "Err", got |-> rc.r]
                      ELSE LET p == prompt(h1, w)
                           IN  [h |-> p.h, r |-> p.r, got |-> rc.r]

----------------------------------------------------------------------------
(* The environment: what is typed, what is registered, how the sink fares. *)

S_he == <<104, 101>>
T1 == <<68, 111, 101, 115, 32, 115, 116, 117, 102, 102, 46>>           \* "Does stuff."
T2 == <<116, 101, 115, 116, 32, 102, 117, 110, 99, 116, 105, 111, 110>> \* "test function"

\* What add_command is called with: <<cmd_name, help_text, handler>>.
Registrations == {<<S_he, T1, "works">>, <<S_he, T2, "fails">>,
                  <<S_help, T2, "fails">>, <<<<>>, T1, "fails">>}

\* The lines typed: every prefix of one of these may be completed by 0x0A.
\* "helpp", "he\r", "He", a lone continuation byte, a two-byte character.
Lines == {S_help \o <<112>>, S_he \o <<13>>, <<72, 101>>, <<128>>, <<195, 128>>}
Typed == UNION {{SubSeq(l, 1, k) : k \in 0..Len(l)} : l \in Lines}
Bytes == {NL} \cup UNION {{l[k] : k \in 1..Len(l)} : l \in Lines}

\* The behaviours of a sink during a call that lists at most n commands and
\* may go on to the error line and the prompt.
SinkPlans(n) == [help : 0..n, error : BOOLEAN, prompt : BOOLEAN, flush : BOOLEAN]

\* ... during a call that only lists (the other fields are not read)
ListingPlans(n) == [help : 0..n, error : {TRUE}, prompt : {TRUE}, flush : {TRUE}]

\* ... during a call that only prompts
PromptPlans == [help : {0}, error : {TRUE}, prompt : BOOLEAN, flush : BOOLEAN]

\* ... during a call that does not reach the sink (no field is read)
NoSink == [help |-> 0, error |-> TRUE, prompt |-> TRUE, flush |-> TRUE]

\* a sink that fails every call made on it
Broken == [help |-> 0, error |-> FALSE, prompt |-> FALSE, flush |-> FALSE]

\* the number of entries of the registry
Size == Cardinality(DOMAIN commands)

----------------------------------------------------------------------------
(* The state machine: one action per public method called on the harness.  *)

\* the harness as the call finds it, with clean instruments
Self == [cmdline |-> cmdline, commands |-> commands, writer |-> writer,
         sink |-> <<>>, called |-> <<>>]

\* The harness as the call leaves it.  Calls are explored while the sink
\* holds fewer than MaxOut events.
Becomes(h) ==
    /\ Len(writer) < MaxOut
    /\ cmdline' = h.cmdline
    /\ commands' = h.commands
    /\ writer' = h.writer
    /\ sink' = h.sink
    /\ called' = h.called
    /\ mark' = Len(writer)

\* the most recent call registered nothing
NoReg == [given |-> <<>>, replaced |-> <<>>]

\* The entries the buffered line makes process iterate over: HashMap::iter is
\* reached through the arm of "help" only, so an iteration order and the
\* fate of the listing's writes are drawn for that line alone.
Iterated == IF is_help(cmdline) THEN commands ELSE new.commands

\* the handlers invoked since construction, the call being made included,
\* counted up to two
Ran ==
    IF typed.runs + Len(called') < 2 THEN typed.runs + Len(called') ELSE 2

Init ==
    /\ cmdline = new.cmdline
    /\ commands = new.commands
    /\ writer = new.writer
    /\ op = [name |-> "new", c |-> -1]
    /\ ret = None
    /\ io = "-"
    /\ called = <<>>
    /\ sink = <<>>
    /\ mark = 0
    /\ reg = NoReg
    /\ typed = [cur |-> <<>>, line |-> <<>>, lines |-> 0, runs |-> 0]

AddCommand ==
    \E reg_ \in Registrations :
        /\ reg_[1] \in DOMAIN commands \/ Size < MaxCmds
        /\ Becomes(add_command(Self, reg_[1], reg_[2], reg_[3]))
        /\ op' = [name |-> "add_command", c |-> -1]
        /\ reg' = [given |-> reg_,
                   replaced |-> IF reg_[1] \in DOMAIN commands
                                THEN <<commands[reg_[1]]>> ELSE <<>>]
        /\ ret' = None
        /\ io' = "-"
        /\ typed' = [typed EXCEPT !.line = <<>>, !.runs = Ran]

Prompt ==
    \E w \in PromptPlans :
        /\ LET p == prompt(Self, w)
           IN  Becomes(p.h) /\ io' = p.r
        /\ op' = [name |-> "prompt", c |-> -1]
        /\ reg' = NoReg
        /\ ret' = None
        /\ typed' = [typed EXCEPT !.line = <<>>, !.runs = Ran]

PrintHelp ==
    \E w \in ListingPlans(Size), ord \in IterOrders(commands) :
        /\ LET p == print_help(Self, w, ord)
           IN  Becomes(p.h) /\ io' = p.r
        /\ op' = [name |-> "print_help", c |-> -1]
        /\ reg' = NoReg
        /\ ret' = None
        /\ typed' = [typed EXCEPT !.line = <<>>, !.runs = Ran]

\* receive(c) for a byte that is not the terminator
ReceiveByte ==
    \E c \in Bytes \ {NL} :
        /\ Append(typed.cur, c) \in Typed
        /\ LET p == receive(Self, c, NoSink, <<>>)
           IN  Becomes(p.h) /\ ret' = p.r
        /\ op' = [name |-> "receive", c |-> c]
        /\ reg' = NoReg
        /\ io' = "-"
        /\ typed' = [typed EXCEPT !.cur = Append(@, c), !.line = <<>>,
                                 !.runs = Ran]

\* receive(0x0A)
ReceiveLine ==
    \E w \in ListingPlans(Cardinality(DOMAIN Iterated)), ord \in IterOrders(Iterated) :
        /\ LET p == receive(Self, NL, w, ord)
           IN  Becomes(p.h) /\ ret' = p.r
        /\ op' = [name |-> "receive", c |-> NL]
        /\ reg' = NoReg
        /\ io' = "-"
        /\ typed' = [cur |-> <<>>, line |-> typed.cur,
                     lines |-> IF typed.lines = 0 THEN 1 ELSE 2,
                     runs |-> Ran]

\* receive_and_print(c) for a byte that is not the terminator
ReceiveAndPrintByte ==
    \E c \in Bytes \ {NL} :
        /\ Append(typed.cur, c) \in Typed
        /\ \E w \in {NoSink, Broken} :
              LET p == receive_and_print(Self, c, w, <<>>)
              IN  Becomes(p.h) /\ ret' = p.got /\ io' = p.r
        /\ op' = [name |-> "receive_and_print", c |-> c]
        /\ reg' = NoReg
        /\ typed' = [typed EXCEPT !.cur = Append(@, c), !.line = <<>>,
                                 !.runs = Ran]

\* receive_and_print(0x0A)
ReceiveAndPrintLine ==
    \E w \in SinkPlans(Cardinality(DOMAIN Iterated)), ord \in IterOrders(Iterated) :
        /\ LET p == receive_and_print(Self, NL, w, ord)
           IN  Becomes(p.h) /\ ret' = p.got /\ io' = p.r
        /\ op' = [name |-> "receive_and_print", c |-> NL]
        /\ reg' = NoReg
        /\ typed' = [cur |-> <<>>, line |-> typed.cur,
                     lines |-> IF typed.lines = 0 THEN 1 ELSE 2,
                     runs |-> Ran]

Next ==
    \/ AddCommand
    \/ Prompt
    \/ PrintHelp
    \/ ReceiveByte
    \/ ReceiveLine
    \/ ReceiveAndPrintByte
    \/ ReceiveAndPrintLine

Spec == Init /\ [][Next]_vars

\* process() called by the owner of the harness: the buffer is dispatched as
\* it stands, no 0x0A is received.  ret is the Result itself, typed.line the
\* bytes dispatched.
Process ==
    \E w \in ListingPlans(Cardinality(DOMAIN Iterated)), ord \in IterOrders(Iterated) :
        /\ LET p == process(Self, w, ord)
           IN  Becomes(p.h) /\ ret' = p.r
        /\ op' = [name |-> "process", c |-> -1]
        /\ reg' = NoReg
        /\ io' = "-"
        /\ typed' = [typed EXCEPT !.cur = <<>>, !.line = typed.cur, !.runs = Ran]

NextP ==
    \/ Next
    \/ Process

\* the harness of a program that also calls process() itself
SpecP == Init /\ [][NextP]_vars

----------------------------------------------------------------------------
(* What the properties read off a state.                                   *)

Elems(s) == {s[i] : i \in DOMAIN s}

\* the most recent call was receive or receive_and_print with the terminator
IsLine == op.name \in {"receive", "receive_and_print"} /\ op.c = NL

\* what the most recent call appended to the sink
Appended == SubSeq(writer, mark + 1, Len(writer))

\* the lines of Typed that are not well-formed UTF-8: a lone continuation
\* byte, and a lead byte whose continuation is missing
NotUtf8 == {<<128>>, <<195>>}

----------------------------------------------------------------------------
(* The properties.                                                         *)

\* C1: after any sequence of receive, receive_and_print, add_command, prompt
\* and print_help calls, cmdline is exactly the bytes fed since the most
\* recent 0x0A (or since new), in order, and never holds the byte 0x0A.
C1_BufferIsCurrentLine ==
    /\ cmdline = typed.cur
    /\ NL \notin Elems(cmdline)

\* a line was completed and two bytes of the next one are in the buffer
C1_Witness ==
    /\ typed.lines > 0
    /\ op.name = "receive"
    /\ cmdline = S_he

\* C2: receive returns None if and only if the byte is not 0x0A, and Some if
\* and only if it is (the receive inside receive_and_print included).
C2_SomeIffTerminator ==
    op.name \in {"receive", "receive_and_print"} =>
        /\ ret = None <=> op.c # NL
        /\ ret.some <=> op.c = NL

\* receive(0x0A) has returned Some after three bytes that each returned None
C2_Witness ==
    /\ op = [name |-> "receive", c |-> NL]
    /\ Len(typed.line) = 3
    /\ ret.some

\* C3: a line that is a registered name other than "help" returns Some of
\* what the handler returned, unchanged.
C3_HandlerResultVerbatim ==
    (IsLine /\ typed.line \in DOMAIN commands /\ typed.line # S_help) =>
        ret = Some(Run(commands[typed.line].handler))

\* the line "he" with the failing handler has returned Some(Err("boom"))
C3_Witness ==
    /\ IsLine
    /\ typed.line = S_he
    /\ S_he \in DOMAIN commands
    /\ commands[S_he].handler = "fails"
    /\ ret = Some(Err(S_boom))

\* C4 as stated: any non-empty line that is no registered name and is not
\* "help" returns Some(Err("Invalid command")).
C4_AnyBytesInvalidCommand ==
    (IsLine /\ typed.line # <<>> /\ typed.line \notin DOMAIN commands
            /\ typed.line # S_help) =>
        ret = Some(Err(S_InvalidCommand))

\* C4, amended: any non-empty line of well-formed UTF-8 that is no registered
\* name and is not "help" returns Some(Err("Invalid command")).
C4_TextInvalidCommand ==
    (IsLine /\ typed.line # <<>> /\ typed.line \notin DOMAIN commands
            /\ typed.line # S_help /\ typed.line \notin NotUtf8) =>
        ret = Some(Err(S_InvalidCommand))

\* the two-byte character U+00C0 alone on a line is an invalid command,
\* while a command is registered
C4_Witness ==
    /\ IsLine
    /\ typed.line = <<195, 128>>
    /\ commands # new.commands
    /\ ret = Some(Err(S_InvalidCommand))

\* the sink calls of the most recent call named `what`
Calls(what) == {i \in DOMAIN sink : sink[i].call = what}

\* every sink call of the most recent call named in `whats` succeeded
AllOk(whats) == \A i \in DOMAIN sink : sink[i].call \in whats => sink[i].ok

\* the listing the most recent call appended: the listing is written before
\* anything else, one event per write! that succeeded
Listing == SubSeq(Appended, 1, Cardinality({i \in Calls("help") : sink[i].ok}))

\* what the most recent call appended after the listing
AfterListing == SubSeq(Appended, Len(Listing) + 1, Len(Appended))

\* the listing holds exactly one line "Command: {name} - {help_text}\n" for
\* each entry of the registry, in some order
FullListing ==
    \E ord \in IterOrders(commands) :
        Listing = [i \in 1..Len(ord) |->
                      WriteEv(HelpLine(ord[i], commands[ord[i]].help_text))]

\* the line "help" was just completed
IsHelpLine == IsLine /\ typed.line = S_help

\* C5 as stated: the line "help" always returns Some(Ok(())) and appends
\* exactly one line per registered name.
C5_HelpAlwaysSucceeds ==
    IsHelpLine => (ret = Some(Ok) /\ FullListing)

\* C5, amended: when every write of the listing succeeds, the line "help"
\* returns Some(Ok(())) and appends exactly one line per registered name,
\* whether or not "help" is registered.
C5_HelpListsRegistry ==
    (IsHelpLine /\ AllOk({"help"})) => (ret = Some(Ok) /\ FullListing)

\* "help" is registered next to another command and the line "help" has
\* listed both
C5_Witness ==
    /\ IsHelpLine
    /\ DOMAIN commands = {S_help, S_he}
    /\ ret = Some(Ok)
    /\ Len(Listing) = 2

\* C6: the handler registered under "help" is never invoked; the entry stays
\* in the registry, and a listing that is written in full has its line.
C6_HelpIsReserved ==
    [][/\ \A i \in DOMAIN called' : called'[i].name # S_help
       /\ S_help \in DOMAIN commands => S_help \in DOMAIN commands'
       /\ (S_help \in DOMAIN commands /\ IsHelpLine' /\ AllOk({"help"})') =>
            WriteEv(HelpLine(S_help, commands[S_help].help_text)) \in Elems(Listing')
      ]_vars

\* "help" is registered, the line "help" was completed, no handler ran and
\* the listing shows the entry
C6_Witness ==
    /\ IsHelpLine
    /\ S_help \in DOMAIN commands
    /\ called = <<>>
    /\ WriteEv(HelpLine(S_help, commands[S_help].help_text)) \in Elems(Listing)

\* C7: a line that is not UTF-8 returns Some(Err("Command is invalid UTF-8")),
\* no handler runs, no listing is written, and receive writes nothing.
C7_InvalidEncoding ==
    (IsLine /\ typed.line \in NotUtf8) =>
        /\ ret = Some(Err(S_InvalidUtf8))
        /\ called = <<>>
        /\ Calls("help") = {}
        /\ op.name = "receive" => (sink = <<>> /\ Appended = <<>>)

\* the line 0x80 was completed by receive while commands are registered
C7_Witness ==
    /\ IsLine
    /\ op.name = "receive"
    /\ typed.line = <<128>>
    /\ commands # new.commands
    /\ ret = Some(Err(S_InvalidUtf8))

\* a harness just created, with the registry cmds
Fresh(cmds) == [cmdline |-> new.cmdline, commands |-> cmds, writer |-> new.writer,
                sink |-> <<>>, called |-> <<>>]

\* the harness h after receive of each byte of `bytes` (none is 0x0A)
RECURSIVE Feed(_, _)
Feed(h, bytes) ==
    IF bytes = <<>> THEN h
    ELSE Feed(receive(h, bytes[1], NoSink, <<>>).h, Tail(bytes))

\* receive of each byte of `line`, then of 0x0A: the harness afterwards and
\* what the last receive returned
TypeLine(h, line, w, ord) == receive(Feed(h, line), NL, w, ord)

\* from the present state and from a fresh harness with the same registry,
\* the line N returns what the handler of N returns, the first time and when
\* it is typed again, for every behaviour of the sink
RunsEveryTime(N) ==
    \A w \in ListingPlans(Size), ord \in IterOrders(commands) :
        LET once == TypeLine(Self, N, w, ord)
            again == TypeLine(once.h, N, w, ord)
            expected == Some(Run(commands[N].handler))
        IN  /\ once.r = expected
            /\ again.r = expected
            /\ TypeLine(Fresh(commands), N, w, ord).r = once.r

\* C8 as stated: the buffer is empty after every terminator, and every
\* registered name N returns the handler's result, after earlier lines as on
\* a fresh harness, also when fed twice in a row.
C8_EveryNameRuns ==
    IsLine =>
        /\ cmdline = <<>>
        /\ \A N \in DOMAIN commands : RunsEveryTime(N)

\* C8, amended: the buffer is empty after every terminator whatever the
\* outcome; the result of a line other than "help" is the one a fresh
\* harness with the same registry gives for its bytes; a registered name N
\* other than "help" returns the handler's result, also when fed twice.
C8_LinesAreIndependent ==
    IsLine =>
        /\ cmdline = <<>>
        /\ typed.line # S_help =>
              ret = TypeLine(Fresh(commands), typed.line, NoSink, <<>>).r
        /\ \A N \in DOMAIN commands \ {S_help} : RunsEveryTime(N)

\* after an earlier line, a line that is not UTF-8 was just rejected, and a
\* command is registered to be typed next
C8_Witness ==
    /\ IsLine
    /\ typed.lines = 2
    /\ typed.line = <<195>>
    /\ ret = Some(Err(S_InvalidUtf8))
    /\ S_he \in DOMAIN commands
    /\ cmdline = <<>>

\* C9: when receive_and_print gets 0x0A and every call on the sink succeeds,
\* it returns Ok and appends, after any listing, the error line if and only
\* if dispatch failed, then one prompt, then a flush.
C9_ErrorLineThenPrompt ==
    (IsLine /\ op.name = "receive_and_print"
            /\ AllOk({"help", "error", "prompt", "flush"})) =>
        /\ io = "Ok"
        /\ AfterListing =
              (IF ret.res.ok THEN <<>> ELSE <<WriteEv(ErrorLine(ret.res.msg))>>)
              \o <<WriteEv(S_Prompt), FlushEv>>

\* a line that is not UTF-8 was reported and followed by the prompt
C9_Witness ==
    /\ IsLine
    /\ op.name = "receive_and_print"
    /\ typed.line = <<128>>
    /\ io = "Ok"
    /\ Appended = <<WriteEv(ErrorLine(S_InvalidUtf8)), WriteEv(S_Prompt), FlushEv>>

\* C10 as stated: whenever a write or flush fails during receive_and_print,
\* a write of the listing included, the call returns an I/O error.
C10_AnyFailurePropagates ==
    (op.name = "receive_and_print" /\ ~AllOk({"help", "error", "prompt", "flush"})) =>
        io = "Err"

\* C10, amended: receive_and_print returns an I/O error exactly when the
\* write of the error line, the write of the prompt or the flush fails; a
\* failed write of the listing alone does not make it return an error.
C10_ErrorAndPromptFailuresPropagate ==
    op.name = "receive_and_print" =>
        (io = "Err" <=> ~AllOk({"error", "prompt", "flush"}))

\* the error line was written, the prompt too, and the flush failed
C10_Witness ==
    /\ IsLine
    /\ op.name = "receive_and_print"
    /\ Len(sink) = 3
    /\ ~sink[3].ok
    /\ sink[3].call = "flush"
    /\ io = "Err"

\* C11: when a write of the listing fails for the line "help", receive
\* returns Some(Err("I/O error printing help")), a message that is neither
\* of the two other dispatch failures; the failed write is the last one of
\* the listing, the lines written before it are in the sink, in an order the
\* registry can be iterated in, no later command is written, and the buffer
\* is empty.
C11_HelpIoError ==
    (IsHelpLine /\ ~AllOk({"help"})) =>
        /\ ret = Some(Err(S_HelpIo))
        /\ S_HelpIo \notin {S_InvalidCommand, S_InvalidUtf8}
        /\ Cardinality(Calls("help")) = Len(Listing) + 1
        /\ Cardinality(Calls("help")) <= Size
        /\ \A i \in Calls("help") : i <= Len(Listing) + 1 /\ (sink[i].ok <=> i <= Len(Listing))
        /\ \E ord \in IterOrders(commands) :
              Listing = [i \in 1..Len(Listing) |->
                            WriteEv(HelpLine(ord[i], commands[ord[i]].help_text))]
        /\ op.name = "receive" => Appended = Listing
        /\ cmdline = <<>>

\* of two registered commands the first was listed and the write of the
\* second failed
C11_Witness ==
    /\ IsHelpLine
    /\ op.name = "receive"
    /\ Size = 2
    /\ Len(Appended) = 1
    /\ ~sink[2].ok
    /\ ret = Some(Err(S_HelpIo))

\* a sink that accepts every call of a listing of the present registry
Accepting == [help |-> Size, error |-> TRUE, prompt |-> TRUE, flush |-> TRUE]

\* the lines "Command: N - ...\n" among the events evs, for the help texts
\* add_command is given
LinesOf(N, evs) ==
    {i \in DOMAIN evs : \E r \in Registrations : evs[i] = WriteEv(HelpLine(N, r[2]))}

NearHe == {S_he \o <<13>>, <<104>>, <<104, 101, 108>>, <<72, 101>>}

\* C13: a terminator invokes the handler of a registered name N exactly when
\* the line is byte for byte N and N is not "help", and invokes nothing
\* otherwise; with "he" registered, "he\r", "h", "hel" and "He" are invalid
\* commands (none of them is registered).
C13_ExactMatch ==
    IsLine =>
        /\ called = IF typed.line \in DOMAIN commands \ {S_help}
                    THEN <<[name |-> typed.line,
                            handler |-> commands[typed.line].handler]>>
                    ELSE <<>>
        /\ (typed.line \in NearHe \ DOMAIN commands) =>
              ret = Some(Err(S_InvalidCommand))

\* "he" is registered and the line "he\r" is an invalid command
C13_Witness ==
    /\ IsLine
    /\ S_he \in DOMAIN commands
    /\ typed.line = S_he \o <<13>>
    /\ called = <<>>
    /\ ret = Some(Err(S_InvalidCommand))

\* C14: a terminator on an empty buffer returns Some: the result of the
\* handler registered under the empty name when there is one, the invalid
\* command failure otherwise, and never the invalid encoding failure.
C14_EmptyLine ==
    (IsLine /\ typed.line = <<>>) =>
        /\ ret.some
        /\ ret # Some(Err(S_InvalidUtf8))
        /\ ret = IF <<>> \in DOMAIN commands
                 THEN Some(Run(commands[<<>>].handler))
                 ELSE Some(Err(S_InvalidCommand))

\* directly after another terminator, with no command under the empty name,
\* the empty line is an invalid command
C14_Witness ==
    /\ IsLine
    /\ typed.lines = 2
    /\ typed.line = <<>>
    /\ <<>> \notin DOMAIN commands
    /\ ret = Some(Err(S_InvalidCommand))

\* C15: receive_and_print of a byte other than 0x0A appends the byte to the
\* buffer and does nothing else: no call on the sink, no handler, the
\* registry unchanged; it returns Ok whatever the sink would answer, a sink
\* that fails every call included.
C15_ByteDoesNoIo ==
    [][(op'.name = "receive_and_print" /\ op'.c # NL) =>
          /\ cmdline' = Append(cmdline, op'.c)
          /\ writer' = writer
          /\ sink' = <<>>
          /\ called' = <<>>
          /\ commands' = commands
          /\ ret' = None
          /\ io' = "Ok"
          /\ \A w \in SinkPlans(Size) \cup {Broken} :
                LET p == receive_and_print(Self, op'.c, w, <<>>)
                IN  /\ p.r = "Ok"
                    /\ p.h = [Self EXCEPT !.cmdline = Append(@, op'.c)]]_vars

\* the second byte of "he" has been received through receive_and_print
C15_Witness ==
    /\ op = [name |-> "receive_and_print", c |-> 101]
    /\ cmdline = S_he
    /\ sink = <<>>
    /\ io = "Ok"

\* C16: receive_and_print(0x0A) writes the error line exactly when the
\* dispatch failed; when that write fails it is the last call made on the
\* sink (no prompt write, no flush) and the call returns the I/O error; in
\* every other case the prompt write is attempted, once.
C16_FailFastOnErrorLine ==
    (op = [name |-> "receive_and_print", c |-> NL]) =>
        /\ Cardinality(Calls("error")) = IF ret.res.ok THEN 0 ELSE 1
        /\ ~AllOk({"error"}) =>
              /\ Calls("prompt") = {}
              /\ Calls("flush") = {}
              /\ sink[Len(sink)].call = "error"
              /\ io = "Err"
              /\ Appended = Listing
        /\ AllOk({"error"}) =>
              /\ Cardinality(Calls("prompt")) = 1
              /\ \A i \in Calls("prompt"), j \in Calls("error") : j < i

\* the line was an invalid command and the write of the error line failed
C16_Witness ==
    /\ op = [name |-> "receive_and_print", c |-> NL]
    /\ ret = Some(Err(S_InvalidCommand))
    /\ sink = <<[call |-> "error", ok |-> FALSE]>>
    /\ io = "Err"

C19_RefinesReceive ==
    /\ \A c \in Bytes :
          \A w \in SinkPlans(Cardinality(DOMAIN Iterated)) \cup {Broken},
             ord \in IF c = NL THEN IterOrders(Iterated) ELSE {<<>>} :
              LET rp == receive_and_print(Self, c, w, ord)
                  rc == receive(Self, c, w, ord)
              IN  /\ rp.h.cmdline = rc.h.cmdline
                  /\ rp.h.commands = rc.h.commands
                  /\ rp.h.called = rc.h.called
                  /\ rp.got = rc.r
    /\ (op = [name |-> "receive_and_print", c |-> NL] /\ io = "Err") =>
          /\ cmdline = <<>>
          /\ typed.line \in DOMAIN commands \ {S_help} =>
                called = <<[name |-> typed.line,
                            handler |-> commands[typed.line].handler]>>

\* the handler of "he" ran and failed, and the error line could not be
\* written
C19_Witness ==
    /\ op = [name |-> "receive_and_print", c |-> NL]
    /\ io = "Err"
    /\ typed.line = S_he
    /\ called = <<[name |-> S_he, handler |-> "fails"]>>
    /\ sink = <<[call |-> "error", ok |-> FALSE]>>
    /\ cmdline = <<>>

\* C20: process() called directly leaves the harness as receive(0x0A) would
\* from the same state, for every behaviour of the sink and every iteration
\* order, and returns what receive would wrap in Some; it dispatches the
\* bytes of the buffer although no 0x0A was received, and the buffer is empty
\* afterwards.
C20_ProcessIsReceiveOfTerminator ==
    [][op'.name = "process" =>
          /\ \A w \in ListingPlans(Cardinality(DOMAIN Iterated)),
                ord \in IterOrders(Iterated) :
                 LET p == process(Self, w, ord)
                     rc == receive(Self, NL, w, ord)
                 IN  p.h = rc.h /\ Some(p.r) = rc.r
          /\ \E w \in ListingPlans(Cardinality(DOMAIN Iterated)),
                ord \in IterOrders(Iterated) :
                 LET rc == receive(Self, NL, w, ord)
                 IN  /\ cmdline' = rc.h.cmdline
                     /\ commands' = rc.h.commands
                     /\ writer' = rc.h.writer
                     /\ sink' = rc.h.sink
                     /\ called' = rc.h.called
                     /\ Some(ret') = rc.r
          /\ cmdline' = <<>>
          /\ typed'.line = cmdline
          /\ typed'.lines = typed.lines]_vars

\* "he" was dispatched by process() and its handler ran, and no 0x0A has
\* been received since construction
C20_Witness ==
    /\ op.name = "process"
    /\ typed.line = S_he
    /\ typed.lines = 0
    /\ called = <<[name |-> S_he, handler |-> "fails"]>>
    /\ ret = Err(S_boom)
    /\ cmdline = <<>>

====
